---------------------------- MODULE Spec2Model ----------------------------
(***************************************************************************)
(* Script-to-audio synthesis pipeline of app.py: create_podcast_audio      *)
(* fans one generate_audio_segment coroutine out per dialogue turn, joins  *)
(* them with asyncio.gather, concatenates the returned mp3 artifacts with  *)
(* a 350 ms pause after each, removes the artifacts and returns the track. *)
(* main() is the only caller in the file; the function is also modelled as *)
(* called directly.                                                        *)
(*                                                                         *)
(* Strings that the code inspects (speaker labels, turn texts) are tuples  *)
(* of one-character strings, so that Python's substring test is computed.  *)
(* Turn positions are 1-based; the Python index of position p is p - 1.    *)
(***************************************************************************)
EXTENDS Integers, Sequences, FiniteSets, TLC

\* ------------------------------------------------------------------ bounds
MaxTurns == 3
MaxDur == 2
MaxParts == 3

\* ------------------------------------------------------- program constants
SilenceMs == 350

\* Python None as a result value; artifact paths are the indices 0, 1, ...
None == -1

\* ----------------------------------------------------------------- strings
Host1 == <<"H", "o", "s", "t", " ", "1">>
Host2 == <<"H", "o", "s", "t", " ", "2">>
Alex == <<"A", "l", "e", "x">>
Rahul == <<"R", "a", "h", "u", "l">>

\* Python's `sub in s` for str: sub occurs in s as a contiguous run.
MatchAt(sub, s, p) ==
    /\ p + Len(sub) - 1 <= Len(s)
    /\ \A q \in 1..Len(sub) : s[p + q - 1] = sub[q]

StrIn(sub, s) == \E p \in 1..(Len(s) + 1) : MatchAt(sub, s, p)

\* ---------------------------------------------------------- voice selection
Languages == {"English", "Hindi", "Hinglish"}

voice_1(language) ==
    IF language = "Hindi" THEN "hi-IN-MadhurNeural"
    ELSE IF language = "Hinglish" THEN "en-IN-PrabhatNeural"
    ELSE "en-US-BrianMultilingualNeural"

voice_2(language) ==
    IF language = "Hindi" THEN "hi-IN-SwaraNeural"
    ELSE IF language = "Hinglish" THEN "en-IN-NeerjaNeural"
    ELSE "en-US-AriaNeural"

\* A plausible slip: the test is anchored at the start of the label.
ResolveVoicePrefix(language, speaker) ==
    IF MatchAt(Host1, speaker, 1) \/ MatchAt(Alex, speaker, 1)
         \/ MatchAt(Rahul, speaker, 1)
    THEN voice_1(language)
    ELSE voice_2(language)

ResolveVoice(language, speaker) ==
    IF StrIn(Host1, speaker) \/ StrIn(Alex, speaker) \/ StrIn(Rahul, speaker)
    THEN voice_1(language)
    ELSE voice_2(language)

\* ------------------------------------------------------------------ inputs
Hi == <<"H", "i">>
Blank == <<" ", " ">>
Empty == <<>>

PipeTurns ==
    { [speaker |-> Host1, text |-> Hi],
      [speaker |-> Host2, text |-> Blank],
      [speaker |-> Host2, text |-> Empty] }

SeqsUpTo(S, n) == UNION { [1..m -> S] : m \in 0..n }

Fragments ==
    { <<"H", "o", "s", "t">>, <<" ">>, <<"1">>, <<"2">>,
      <<"A", "l">>, <<"e", "x">>, Rahul, <<"h", "o", "s", "t">> }

RECURSIVE Flatten(_)
Flatten(ss) == IF ss = <<>> THEN <<>> ELSE Head(ss) \o Flatten(Tail(ss))

Labels == { Flatten(ss) : ss \in SeqsUpTo(Fragments, MaxParts) }

\* ------------------------------------------------------------------- state
VARIABLES
    script,        \* script_json: sequence of [speaker, text]
    language,      \* language argument
    mainpc,        \* position of main(): "none" when the pipeline is called directly
    pc,            \* position of create_podcast_audio
    tasks,         \* tasks list: one coroutine per turn
    dirExists,     \* os.path.exists("temp_audio")
    fs,            \* artifact store: path -> file
    requests,      \* per position: number of communicate.save calls made
    results,       \* gather's result slots
    files,         \* files (line 121)
    valid_files,   \* valid_files (line 126)
    track,         \* combined
    k,             \* loop position of the assembly / cleanup loop
    progress,      \* milestones passed to the progress bar, in order
    error,         \* what made the run raise: "none", "segment", "decode"
    outOfOrder,    \* some task completed while a lower-index one was outstanding
    outcome,       \* per position: what the backend call did: "none", "ok", "error"
    removed,       \* paths on which os.remove was attempted
    other          \* a second run of the pipeline in the same working directory

vars == << script, language, mainpc, pc, tasks, dirExists, fs, requests,
           results, files, valid_files, track, k, progress, error,
           outOfOrder, outcome, removed, other >>

\* a gather slot whose awaitable has not finished
Pending == -2

\* no file at a path
NoFile == [exists |-> FALSE, turn |-> -1, run |-> 0]

\* a file written by this run (run 1)
File(turn) == [exists |-> TRUE, turn |-> turn, run |-> 1]

\* a file written by the second run
OtherFile(turn) == [exists |-> TRUE, turn |-> turn, run |-> 2]

Paths == 0..(MaxTurns + 1)

\* A plausible slip: the index is left out of the file name.
SegPathShared(index) == 0

\* output_file = os.path.join(temp_dir, f"seg_{index}.mp3")
SegPath(index) == index

N == Len(script)
Pos == 1..N

\* ----------------------------------------------------------------- helpers
NewTask(text, voice, index) ==
    [text |-> text, voice |-> voice, index |-> index,
     state |-> "created", result |-> None]

\* return output_file
OnSynthOk(t) == [t EXCEPT !.state = "done", !.result = SegPath(t.index)]

\* A plausible slip: the handler re-raises instead of returning None.
OnSynthErrorRaise(t) == [t EXCEPT !.state = "raised"]

\* A plausible slip: the handler schedules the segment again.
OnSynthErrorRetry(t) == [t EXCEPT !.state = "created"]

\* except Exception: print(...); return None
OnSynthError(t) == [t EXCEPT !.state = "done", !.result = None]

\* A plausible slip: results are collected as they complete.
GatherStoreCompletionOrder(res, p, r) ==
    LET q == CHOOSE q \in 1..Len(res) :
                 /\ res[q] = Pending
                 /\ \A q2 \in 1..(q - 1) : res[q2] # Pending
    IN [res EXCEPT ![q] = r]

\* asyncio.gather keeps one result slot per awaitable, in argument order.
GatherStore(res, p, r) == [res EXCEPT ![p] = r]

\* valid_files = [f for f in files if f is not None]
ValidFiles(fl) == SelectSeq(fl, LAMBDA f : f # None)

\* AudioSegment.empty()
EmptyTrack == <<>>

Audio(turn, dur) == [kind |-> "audio", turn |-> turn, dur |-> dur]

\* AudioSegment.silent(duration=350)
Silent(duration) == [kind |-> "silence", turn |-> -1, dur |-> duration]

\* A plausible slip: the pause is put between clips only.
AppendClipBetween(tr, segment) ==
    IF tr = <<>> THEN <<segment>> ELSE tr \o <<Silent(SilenceMs), segment>>

\* combined += segment; combined += AudioSegment.silent(duration=350)
AppendClip(tr, segment) == (tr \o <<segment>>) \o <<Silent(SilenceMs)>>

\* A plausible slip: the failure of os.remove is not caught.
OnRemoveErrorRaise(at) == "raised"

\* except: pass -- the cleanup loop goes on where it was
OnRemoveError(at) == at

\* A plausible slip: the "mixing" call passes 100.
MixingProgressDone(pr) == Append(pr, 100)

\* my_bar.progress(50, text="Mixing audio...")
MixingProgress(pr) == Append(pr, 50)

RECURSIVE Duration(_)
Duration(tr) == IF tr = <<>> THEN 0 ELSE Head(tr).dur + Duration(Tail(tr))

\* -------------------------------------------------------------------- Init
InitCommon ==
    /\ language \in Languages
    /\ tasks = <<>>
    /\ dirExists \in BOOLEAN
    /\ fs = [p \in Paths |-> NoFile]
    /\ requests = [p \in 1..Len(script) |-> 0]
    /\ results = <<>>
    /\ files = <<>>
    /\ valid_files = <<>>
    /\ track = <<>>
    /\ k = 0
    /\ progress = <<>>
    /\ error = "none"
    /\ outOfOrder = FALSE
    /\ outcome = [p \in 1..Len(script) |-> "none"]
    /\ removed = {}

NoOther == [phase |-> "off", files |-> {}]

Init ==
    /\ script \in SeqsUpTo(PipeTurns, MaxTurns)
    /\ \/ mainpc = "check" /\ pc = "idle"
       \/ mainpc = "none" /\ pc = "cpa_start"
    /\ InitCommon
    /\ other = NoOther

\* One-turn scripts over every label: the voice resolver's input domain.
InitVoice ==
    /\ script \in { <<[speaker |-> l, text |-> Hi]>> : l \in Labels }
    /\ mainpc = "check" /\ pc = "idle"
    /\ InitCommon
    /\ other = NoOther

\* Two sessions generate at the same time: a second run of
\* create_podcast_audio is synthesizing in the same working directory.
InitTwoRuns ==
    /\ script \in SeqsUpTo({[speaker |-> Host1, text |-> Hi]}, MaxTurns)
    /\ mainpc = "check" /\ pc = "idle"
    /\ InitCommon
    /\ other = [phase |-> "gather", files |-> {}]

\* ----------------------------------------------------------------- actions
\* main, line 176: if script:
MainCheck ==
    /\ mainpc = "check"
    /\ IF script = <<>>
       THEN mainpc' = "skipped" /\ pc' = pc
       ELSE mainpc' = "running" /\ pc' = "cpa_start"
    /\ UNCHANGED << script, language, tasks, dirExists, fs, requests, results,
                    files, valid_files, track, k, progress, error, outOfOrder,
                    removed,
                    outcome, other >>

\* A plausible slip: the voices are dealt out by turn position ("Host 1 is
\* usually the first speaker") instead of by speaker label.
CpaStartByPosition ==
    /\ pc = "cpa_start"
    /\ tasks' = [p \in Pos |->
                   NewTask(script[p].text,
                           IF (p - 1) % 2 = 0 THEN voice_1(language)
                                              ELSE voice_2(language),
                           p - 1)]
    /\ results' = [p \in Pos |-> Pending]
    /\ progress' = <<0>>
    /\ pc' = "gather"
    /\ UNCHANGED << script, language, mainpc, dirExists, fs, requests, files,
                    valid_files, track, k, error, outOfOrder, removed,
                    outcome, other >>

\* create_podcast_audio, lines 89-118: voice table, progress(0), task list.
CpaStart ==
    /\ pc = "cpa_start"
    /\ tasks' = [p \in Pos |->
                   NewTask(script[p].text,
                           ResolveVoice(language, script[p].speaker), p - 1)]
    /\ results' = [p \in Pos |-> Pending]
    /\ progress' = <<0>>
    /\ pc' = "gather"
    /\ UNCHANGED << script, language, mainpc, dirExists, fs, requests, files,
                    valid_files, track, k, error, outOfOrder, removed,
                    outcome, other >>

\* A plausible slip: each segment is awaited before the next is started.
CanStartSequential(p) ==
    \A q \in 1..(p - 1) : tasks[q].state \notin {"created", "awaiting"}

\* gather schedules every coroutine at once; the loop runs their first steps
\* in argument order, none waiting for another's result.
CanStart(p) == \A q \in 1..(p - 1) : tasks[q].state # "created"

\* generate_audio_segment up to its first suspension, lines 73-80.  The event
\* loop starts the tasks in the order gather received them.
TaskStart(p) ==
    /\ pc = "gather"
    /\ tasks[p].state = "created"
    /\ CanStart(p)
    /\ \/ /\ dirExists
          /\ dirExists' = dirExists
          /\ tasks' = [tasks EXCEPT ![p].state = "awaiting"]
          /\ requests' = [requests EXCEPT ![p] = @ + 1]
       \/ /\ ~dirExists          \* os.makedirs succeeds
          /\ dirExists' = TRUE
          /\ tasks' = [tasks EXCEPT ![p].state = "awaiting"]
          /\ requests' = [requests EXCEPT ![p] = @ + 1]
       \/ /\ ~dirExists          \* os.makedirs raises, outside the try
          /\ dirExists' \in BOOLEAN
          /\ tasks' = [tasks EXCEPT ![p].state = "raised"]
          /\ requests' = requests
    /\ UNCHANGED << script, language, mainpc, pc, fs, results, files,
                    valid_files, track, k, progress, error, outOfOrder,
                    removed,
                    outcome, other >>

Outstanding(p) == tasks[p].state \in {"created", "awaiting"}

\* await communicate.save(output_file) returns; return output_file
TaskSucceed(p) ==
    /\ pc = "gather"
    /\ tasks[p].state = "awaiting"
    /\ fs' = [fs EXCEPT ![SegPath(tasks[p].index)] = File(tasks[p].index)]
    /\ tasks' = [tasks EXCEPT ![p] = OnSynthOk(@)]
    /\ results' = GatherStore(results, p, OnSynthOk(tasks[p]).result)
    /\ outcome' = [outcome EXCEPT ![p] = "ok"]
    /\ outOfOrder' = (outOfOrder \/ \E q \in 1..(p - 1) : Outstanding(q))
    /\ UNCHANGED << script, language, mainpc, pc, dirExists, requests, files,
                    valid_files, track, k, progress, error, removed,
                    other >>

\* communicate.save raises; lines 82-84
TaskFail(p) ==
    /\ pc = "gather"
    /\ tasks[p].state = "awaiting"
    /\ tasks' = [tasks EXCEPT ![p] = OnSynthError(@)]
    /\ results' = IF OnSynthError(tasks[p]).state = "done"
                  THEN GatherStore(results, p, OnSynthError(tasks[p]).result)
                  ELSE results
    /\ outcome' = [outcome EXCEPT ![p] = "error"]
    /\ outOfOrder' = (outOfOrder \/ \E q \in 1..(p - 1) : Outstanding(q))
    /\ UNCHANGED << script, language, mainpc, pc, dirExists, fs, requests,
                    files, valid_files, track, k, progress, error, removed,
                    other >>

\* files = await asyncio.gather(*tasks) returns; lines 121-126
GatherJoin ==
    /\ pc = "gather"
    /\ \A p \in Pos : tasks[p].state = "done"
    /\ files' = results
    /\ progress' = MixingProgress(progress)
    /\ track' = EmptyTrack
    /\ valid_files' = ValidFiles(results)
    /\ k' = 1
    /\ pc' = "assemble"
    /\ UNCHANGED << script, language, mainpc, tasks, dirExists, fs, requests,
                    results, error, outOfOrder, removed,
                    outcome, other >>

\* gather (return_exceptions=False) hands the first exception of a task to
\* the awaiting coroutine; the other tasks are left as they are.
GatherRaise ==
    /\ pc = "gather"
    /\ \A p \in Pos : tasks[p].state # "created"
    /\ \E p \in Pos : tasks[p].state = "raised"
    /\ pc' = "raised"
    /\ error' = "segment"
    /\ UNCHANGED << script, language, mainpc, tasks, dirExists, fs, requests,
                    results, files, valid_files, track, k, progress,
                    outOfOrder, removed,
                    outcome, other >>

\* loop body, lines 128-132, for a readable artifact
AssembleStep ==
    /\ pc = "assemble"
    /\ k <= Len(valid_files)
    /\ valid_files[k] # None
    /\ fs[valid_files[k]].exists
    /\ \E d \in 1..MaxDur :
          track' = AppendClip(track, Audio(fs[valid_files[k]].turn, d))
    /\ k' = k + 1
    /\ UNCHANGED << script, language, mainpc, pc, tasks, dirExists, fs,
                    requests, results, files, valid_files, progress, error,
                    outOfOrder, removed,
                    outcome, other >>

\* AudioSegment.from_mp3(file) raises (line 129); nothing catches it here
AssembleDecodeError ==
    /\ pc = "assemble"
    /\ k <= Len(valid_files)
    /\ pc' = "raised"
    /\ error' = "decode"
    /\ UNCHANGED << script, language, mainpc, tasks, dirExists, fs, requests,
                    results, files, valid_files, track, k, progress,
                    outOfOrder, removed,
                    outcome, other >>

AssembleDone ==
    /\ pc = "assemble"
    /\ k > Len(valid_files)
    /\ pc' = "cleanup"
    /\ k' = 1
    /\ UNCHANGED << script, language, mainpc, tasks, dirExists, fs, requests,
                    results, files, valid_files, track, progress, error,
                    outOfOrder, removed,
                    outcome, other >>

\* loop body, lines 135-139: os.remove, any failure swallowed
CleanupStep ==
    /\ pc = "cleanup"
    /\ k <= Len(valid_files)
    /\ \E ok \in BOOLEAN :
          /\ fs' = IF ok /\ valid_files[k] # None
                   THEN [fs EXCEPT ![valid_files[k]] = NoFile]
                   ELSE fs
          /\ pc' = IF ok THEN pc ELSE OnRemoveError(pc)
    /\ removed' = removed \cup {valid_files[k]}
    /\ k' = k + 1
    /\ UNCHANGED << script, language, mainpc, tasks, dirExists, requests,
                    results, files, valid_files, track, progress, error,
                    outOfOrder,
                    outcome, other >>

\* lines 141-142: progress(100); return combined
CleanupDone ==
    /\ pc = "cleanup"
    /\ k > Len(valid_files)
    /\ progress' = Append(progress, 100)
    /\ pc' = "done"
    /\ UNCHANGED << script, language, mainpc, tasks, dirExists, fs, requests,
                    results, files, valid_files, track, k, error, outOfOrder,
                    removed,
                    outcome, other >>

\* main, lines 187-202: the returned track is exported and shown
MainShow ==
    /\ mainpc = "running"
    /\ pc = "done"
    /\ mainpc' = "shown"
    /\ UNCHANGED << script, language, pc, tasks, dirExists, fs, requests,
                    results, files, valid_files, track, k, progress, error,
                    outOfOrder, removed,
                    outcome, other >>

\* main, lines 204-205: except Exception -> st.error
MainCatch ==
    /\ mainpc = "running"
    /\ pc = "raised"
    /\ mainpc' = "error"
    /\ UNCHANGED << script, language, pc, tasks, dirExists, fs, requests,
                    results, files, valid_files, track, k, progress, error,
                    outOfOrder, removed,
                    outcome, other >>

\* The second run executes the same code; of its steps only those that
\* touch the shared temp_audio directory are kept.
OwnVars == << script, language, mainpc, pc, tasks, requests, results, files,
              valid_files, track, k, progress, error, outOfOrder, outcome,
              removed >>

\* generate_audio_segment of the second run, lines 73-81, for its index j
OtherWrite(j) ==
    /\ other.phase = "gather"
    /\ SegPath(j) \notin other.files
    /\ dirExists' = TRUE
    /\ fs' = [fs EXCEPT ![SegPath(j)] = OtherFile(j)]
    /\ other' = [other EXCEPT !.files = @ \cup {SegPath(j)}]
    /\ UNCHANGED OwnVars

\* the second run's gather returns and its assembly loop has run
OtherJoin ==
    /\ other.phase = "gather"
    /\ other' = [other EXCEPT !.phase = "cleanup"]
    /\ UNCHANGED << OwnVars, dirExists, fs >>

\* the second run's cleanup loop, lines 135-139, on one of its valid_files
OtherRemove(path) ==
    /\ other.phase = "cleanup"
    /\ path \in other.files
    /\ fs' = [fs EXCEPT ![path] = NoFile]
    /\ other' = [other EXCEPT !.files = @ \ {path}]
    /\ UNCHANGED << OwnVars, dirExists >>

Next ==
    \/ MainCheck
    \/ CpaStart
    \/ \E p \in Pos : TaskStart(p)
    \/ \E p \in Pos : TaskSucceed(p)
    \/ \E p \in Pos : TaskFail(p)
    \/ GatherJoin
    \/ GatherRaise
    \/ AssembleStep
    \/ AssembleDecodeError
    \/ AssembleDone
    \/ CleanupStep
    \/ CleanupDone
    \/ MainShow
    \/ MainCatch

Spec == Init /\ [][Next]_vars

SpecVoice == InitVoice /\ [][Next]_vars

NextTwoRuns ==
    \/ Next
    \/ \E j \in 0..(MaxTurns - 1) : OtherWrite(j)
    \/ OtherJoin
    \/ \E path \in Paths : OtherRemove(path)

SpecTwoRuns == InitTwoRuns /\ [][NextTwoRuns]_vars

\* Every enabled step is eventually taken: the event loop keeps running
\* and every backend call returns or raises.
FairSpec == Spec /\ WF_vars(Next)

TypeOK ==
    /\ pc \in {"idle", "cpa_start", "gather", "assemble", "cleanup", "done",
               "raised"}
    /\ mainpc \in {"none", "check", "skipped", "running", "shown", "error"}
    /\ error \in {"none", "segment", "decode"}

\* ------------------------------------------------------ derived quantities
Launched == pc \notin {"idle", "cpa_start"}

Joined == pc \in {"assemble", "cleanup", "done"}

\* positions whose backend call succeeded, as Python indices in script order
RECURSIVE PresentFrom(_)
PresentFrom(p) ==
    IF p > N THEN <<>>
    ELSE (IF outcome[p] = "ok" THEN <<p - 1>> ELSE <<>>) \o PresentFrom(p + 1)

RECURSIVE AudioTurns(_)
AudioTurns(tr) ==
    IF tr = <<>> THEN <<>>
    ELSE (IF Head(tr).kind = "audio" THEN <<Head(tr).turn>> ELSE <<>>)
             \o AudioTurns(Tail(tr))

SegmentFailed(p) == tasks[p].state = "raised" \/ outcome[p] = "error"

\* ------------------------------------------------------------------ claims

\* C1: whatever order the segment syntheses complete in, the audio clips of
\* the returned track are the turns whose synthesis succeeded, in script
\* order; while the track is being built it is a prefix of that sequence.
C1_OrderPreserved ==
    /\ pc = "done" => AudioTurns(track) = PresentFrom(1)
    /\ pc \in {"assemble", "cleanup"} =>
          /\ Len(AudioTurns(track)) <= Len(PresentFrom(1))
          /\ AudioTurns(track)
                = SubSeq(PresentFrom(1), 1, Len(AudioTurns(track)))

C1_Witness ==
    /\ pc = "done"
    /\ outOfOrder
    /\ Len(AudioTurns(track)) >= 2
    /\ \E p \in Pos : outcome[p] = "error"

\* C2: after the join, files has one entry per turn, and entry p is what the
\* synthesis launched for turn p produced: the artifact path of index p - 1
\* if the backend call for turn p succeeded, None otherwise.
C2_IndexAligned ==
    Joined =>
       /\ Len(files) = Len(script)
       /\ \A p \in Pos :
             /\ tasks[p].index = p - 1
             /\ tasks[p].text = script[p].text
             /\ outcome[p] = "ok" => files[p] = SegPath(p - 1)
             /\ outcome[p] # "ok" => files[p] = None

C2_Witness ==
    /\ pc = "assemble"
    /\ outOfOrder
    /\ \E p, q \in Pos : p < q /\ files[p] = None /\ files[q] # None
    /\ \E p, q \in Pos : p < q /\ files[p] # None /\ files[q] # None

\* C3: when some but not all segment operations fail, at whatever step, the
\* run does not raise because of a segment: no segment failure gets past
\* the join.
C3_PartialFailureAbsorbed ==
    (/\ Launched
     /\ \E p \in Pos : SegmentFailed(p)
     /\ \E p \in Pos : ~SegmentFailed(p))
    => ~(pc = "raised" /\ error = "segment")

\* C4: the track receives its first clip only after every segment operation
\* has completed, and the orchestrator is past the join (returned, raised or
\* assembling) only when no segment operation is still outstanding.
C4_JoinBeforeAssembly ==
    /\ track # <<>> => \A p \in Pos : tasks[p].state = "done"
    /\ pc \in {"assemble", "cleanup", "done", "raised"} =>
          \A p \in Pos : ~Outstanding(p)

\* C5: with an empty script, and with a script whose every backend synthesis
\* call fails, the run never raises, appends nothing (neither audio nor
\* silence), can always go on to its return, and returns a track of
\* duration 0.
AllAbsent == Launched /\ \A p \in Pos : outcome[p] = "error"

RECURSIVE AudioDuration(_)
AudioDuration(tr) ==
    IF tr = <<>> THEN 0
    ELSE (IF Head(tr).kind = "audio" THEN Head(tr).dur ELSE 0)
             + AudioDuration(Tail(tr))

C6_SilenceArithmetic ==
    pc = "done" =>
       LET K == Len(PresentFrom(1)) IN
       /\ Len(track) = 2 * K
       /\ \A j \in 1..K :
             /\ track[2 * j - 1].kind = "audio"
             /\ track[2 * j - 1].turn = PresentFrom(1)[j]
             /\ track[2 * j] = [kind |-> "silence", turn |-> -1, dur |-> 350]
       /\ Duration(track) = AudioDuration(track) + K * 350

C6_Witness ==
    /\ pc = "done"
    /\ Len(PresentFrom(1)) >= 2
    /\ \E p \in Pos : outcome[p] = "error"
    /\ \E i, j \in 1..Len(track) :
          /\ track[i].kind = "audio"
          /\ track[j].kind = "audio"
          /\ track[i].dur # track[j].dur

\* C7: an artifact that cannot be decoded never makes the run raise.
C7_CorruptDowngraded == ~(pc = "raised" /\ error = "decode")

\* C8: for a turn whose text is empty or only whitespace no request is made
\* to the backend, and its result is absent.
IsBlank(text) == \A j \in 1..Len(text) : text[j] \in {" ", "\t", "\n"}

C8_BlankTextSkipped ==
    \A p \in Pos :
       IsBlank(script[p].text) =>
          /\ requests[p] = 0
          /\ Joined => files[p] = None

\* C9: for every language and every speaker label, the voice handed to the
\* turn's synthesis is the language's first-host voice when "Host 1", "Alex"
\* or "Rahul" occurs somewhere in the label, and the language's second-host
\* voice for every other label, the empty one included; no other voice is
\* ever used.
FirstHostVoice ==
    [l \in Languages |->
        CASE l = "English" -> "en-US-BrianMultilingualNeural"
          [] l = "Hindi" -> "hi-IN-MadhurNeural"
          [] l = "Hinglish" -> "en-IN-PrabhatNeural"]

SecondHostVoice ==
    [l \in Languages |->
        CASE l = "English" -> "en-US-AriaNeural"
          [] l = "Hindi" -> "hi-IN-SwaraNeural"
          [] l = "Hinglish" -> "en-IN-NeerjaNeural"]

HasAlias(label) ==
    \E a \in 1..Len(label) : \E b \in a..Len(label) :
       SubSeq(label, a, b) \in {Host1, Alex, Rahul}

C9_VoiceResolution ==
    Launched =>
       \A p \in Pos :
          /\ HasAlias(script[p].speaker) =>
                tasks[p].voice = FirstHostVoice[language]
          /\ ~HasAlias(script[p].speaker) =>
                tasks[p].voice = SecondHostVoice[language]
          /\ tasks[p].voice \in {FirstHostVoice[language],
                                 SecondHostVoice[language]}

\* a label that carries an alias after other characters
C9_Witness ==
    /\ Launched
    /\ N = 1
    /\ language = "Hindi"
    /\ HasAlias(script[1].speaker)
    /\ script[1].speaker[1] \in {"2", " "}
    /\ tasks[1].voice = "hi-IN-MadhurNeural"

\* C10: the backend is called at most once per turn, and a segment whose
\* call failed is finished with an absent result and stays so: the number
\* of backend requests never exceeds the number of turns.
RECURSIVE SumTo(_, _)
SumTo(f, n) == IF n = 0 THEN 0 ELSE f[n] + SumTo(f, n - 1)

C10_NoRetry ==
    /\ \A p \in Pos : requests[p] <= 1
    /\ SumTo(requests, N) <= N
    /\ Launched =>
          \A p \in Pos :
             outcome[p] = "error" =>
                /\ tasks[p].state = "done"
                /\ tasks[p].result = None
                /\ results[p] = None

C10_Witness ==
    /\ pc = "done"
    /\ \E p, q \in Pos :
          /\ outcome[p] = "error" /\ requests[p] = 1
          /\ outcome[q] = "ok" /\ requests[q] = 1

\* C11: a failing os.remove never fails the run: whichever deletions fail,
\* every step of the cleanup loop leaves the assembled track as it is and
\* stays in cleanup or returns, and at the return a deletion has been
\* attempted on every entry of valid_files.
Range(sq) == { sq[j] : j \in 1..Len(sq) }

C11_CleanupNeverFails ==
    /\ [](pc = "done" => removed = Range(valid_files) /\ error = "none")
    /\ [][pc = "cleanup" =>
            /\ track' = track
            /\ pc' \in {"cleanup", "done"}
            /\ error' = "none"]_vars

\* a deletion failed, a later one succeeded, and the track was returned
C11_Witness ==
    /\ pc = "done"
    /\ track # <<>>
    /\ \E a, b \in removed : a < b /\ fs[a].exists /\ ~fs[b].exists

C13_DistinctSlots ==
    Launched =>
       /\ \A p, q \in Pos :
             p # q => SegPath(tasks[p].index) # SegPath(tasks[q].index)
       /\ \A path \in Paths :
             fs[path].exists =>
                \E p \in Pos :
                   /\ SegPath(tasks[p].index) = path
                   /\ fs[path].turn = p - 1
                   /\ outcome[p] = "ok"
       /\ (pc = "assemble" /\ k <= Len(valid_files)) =>
             fs[valid_files[k]].turn = PresentFrom(1)[k]

C13_Witness ==
    /\ pc = "assemble"
    /\ k = 2
    /\ Len(valid_files) >= 2
    /\ outOfOrder
    /\ track # <<>>

\* C14: with two runs at work at the same time, the second run never writes
\* a path that a segment operation of this run uses, and what this run's
\* assembly and cleanup loops read and delete was written by this run.
C14_RunScoped ==
    Launched =>
       /\ \A p \in Pos : SegPath(tasks[p].index) \notin other.files
       /\ pc \in {"assemble", "cleanup"} =>
             \A path \in Range(valid_files) :
                fs[path].exists => fs[path].run = 1

\* C15: however the run ends, a deletion has been attempted on every
\* artifact that assembly read, and no deletion is attempted on an artifact
\* that assembly has not read.
ReadPaths ==
    IF pc \in {"assemble", "raised"}
    THEN { valid_files[j] : j \in 1..(k - 1) }
    ELSE Range(valid_files)

C15_ReadThenDeleted ==
    /\ pc \in {"done", "raised"} => ReadPaths \subseteq removed
    /\ removed \subseteq ReadPaths

\* C16: a segment operation that is next in the loop's queue can always
\* take its first step, whether or not the operations before it have
\* finished: its start waits for no other operation's result.
C16_IssuedConcurrently ==
    pc = "gather" =>
       \A p \in Pos :
          (/\ tasks[p].state = "created"
           /\ \A q \in 1..(p - 1) : tasks[q].state # "created")
          => ENABLED TaskStart(p)

\* every operation of a script of three or more turns is outstanding at once
C16_Witness ==
    /\ pc = "gather"
    /\ N >= 3
    /\ \A p \in Pos : tasks[p].state = "awaiting"

\* C17: the milestones emitted so far are always a prefix of 0, 50, 100,
\* whatever the number of turns; 50 has been emitted only if every segment
\* operation has completed, and 100 exactly when the run has returned, after
\* the assembly loop and a deletion attempt on every valid file.
C17_ProgressMilestones ==
    /\ progress \in {<<>>, <<0>>, <<0, 50>>, <<0, 50, 100>>}
    /\ Launched <=> Len(progress) >= 1
    /\ Len(progress) >= 2 => \A p \in Pos : tasks[p].state = "done"
    /\ Len(progress) = 3 <=> pc = "done"
    /\ pc = "done" =>
          /\ Len(track) = 2 * Len(valid_files)
          /\ removed = Range(valid_files)

C17_Witness ==
    /\ pc = "done"
    /\ progress = <<0, 50, 100>>
    /\ N >= 2
    /\ track # <<>>
    /\ \E p \in Pos : outcome[p] = "error"

\* C18: under fair scheduling every run that was started eventually returns
\* its track, and while some segment operation has not completed the run is
\* not in (or past) assembly.
C18_RunCompletes ==
    /\ (pc = "cpa_start") ~> (pc = "done")
    /\ [](pc \in {"assemble", "cleanup", "done"} =>
             \A p \in Pos : tasks[p].state = "done")
=============================================================================
